---- MODULE Spec2Model ----
(***************************************************************************)
(* A model of SSHService (src/ssh.js): one session object, the ssh2        *)
(* clients it creates, the promises its methods return, and the events     *)
(* the transport emits.  Strings are sequences of one-character strings.   *)
(* Promise reactions (the code after an await, a then-callback) run as     *)
(* microtasks before the next transport event, so an event handler and     *)
(* the continuations it wakes are one step.  The logger module            *)
(* (src/logger.js and its stack-trace variants) is modelled with its       *)
(* module-level variables and latest.log as a sequence of lines.           *)
(***************************************************************************)
EXTENDS Integers, Sequences, FiniteSets, TLC

VARIABLES ip, port, username, password, status, ssh, clients, calls, logged, logger,
          latest, dated, logFileExists, logFileSizeInBytes, logFolderExists, lastDay,
          today, removed

\* The logger module's variables, ./logs/latest.log, the dated file of the last
\* rename, the day of the month the clock gives, and the lines taken out of
\* latest.log so far.
logvars == <<latest, dated, logFileExists, logFileSizeInBytes, logFolderExists, lastDay,
             today, removed>>

vars == <<ip, port, username, password, status, ssh, clients, calls, logged, logger,
          logvars>>

(* ------------------------------ bounds -------------------------------- *)

\* API calls made on the session in one behaviour.
MaxCalls == 2
\* data events the transport emits, over all command sub-channels.
MaxChunks == 2
\* arguments in an exec() argument list (SpecExec).
MaxArgs == 2
\* characters in one argument string (SpecExec).
MaxArgLen == 1

(* --------------------------- JavaScript values ------------------------- *)

\* `!x` for the string-valued constructor parameters: "" and null are falsy.
\* null is written "null".
FalsyString(s) == s = "" \/ s = "null"

\* `!x` for the port: 0 is falsy.
FalsyNumber(n) == n = 0

IpValues == {"null", "", "127.0.0.1"}
PortValues == {0, 22}
UsernameValues == {"", "user"}
PasswordValues == {"", "password"}

\* this.ssh === null is 0; otherwise the index of the ssh2.Client in clients.
NullHandle == 0

Quote == "'"

Backslash == "\\"

Space == " "

(* ------------------------------ records -------------------------------- *)

\* What a promise settles with: the returned value (ret: undefined, true, or the
\* object {code, signal, data}) or the error it rejects with.
NoResult == [ret |-> "none", code |-> "none", signal |-> "none", data |-> <<>>,
             error |-> "none"]

Returned(v) == [NoResult EXCEPT !.ret = v]

Rejection(err) == [NoResult EXCEPT !.error = err]

\* A promise returned by one method call, with what the call did.
\*   state, value        the promise the caller holds
\*   rawState, rawValue  the promise of rawExec (exec awaits it)
\*   handle              this.ssh when the call started
\*   overlap             another call was pending while the call was
\*   failed              the call took connect()'s catch path
\*   statusAtSettle      this.status when the promise settled
\*   given               the call was made before the behaviour starts
\*   first               the first of 'ready' and 'error' the transport emitted
\*                       on the client once the call's listeners were on it
\*   cmd, args, command  exec's inputs and the string given to this.ssh.exec
\*   chan                the command sub-channel: none, opening, refusing, open,
\*                       failed, closed
\*   listeners           <<emitter, event>> pairs the open callback attached
\*   data                the accumulator `data` of the open callback
\*   emitted             every chunk the channel emitted before its terminal close
\*   term                what the channel's terminal close carried
NoArgs == [kind |-> "none", items |-> <<>>]

NoTerm == [code |-> "none", signal |-> "none"]

NewCall(op, h) ==
    [op |-> op, state |-> "pending", value |-> NoResult,
     rawState |-> "none", rawValue |-> NoResult,
     handle |-> h, overlap |-> FALSE, failed |-> FALSE, statusAtSettle |-> FALSE,
     first |-> "none", given |-> FALSE,
     cmd |-> <<>>, args |-> NoArgs, command |-> <<>>,
     chan |-> "none", listeners |-> {}, data |-> <<>>, emitted |-> <<>>,
     stderrClosed |-> FALSE, cbThrew |-> FALSE, term |-> NoTerm]

\* A faulty variant: a promise that can be settled again.
SettleAgain(c, st, val, now) ==
    [c EXCEPT !.state = st, !.value = val, !.statusAtSettle = now]

\* A promise settles once: resolve and reject on a settled promise do nothing.
Settle(c, st, val, now) ==
    IF c.state # "pending" THEN c
    ELSE [c EXCEPT !.state = st, !.value = val, !.statusAtSettle = now]

\* A transport client made by `new ssh2.Client()`.
\*   phase         new, connecting, ready, failed, ended (the transport's side)
\*   testL         calls whose 'ready' and 'error' listeners are on the client
\*   endL          calls whose 'end' listener is on the client
\*   endRequested  end() was called and 'end' has not been emitted since
NewClient == [phase |-> "new", testL |-> {}, endL |-> {}, endRequested |-> FALSE]

NextId == Len(calls) + 1

\* Calls are made until MaxCalls of them were made in the behaviour.
CanCall == Cardinality({i \in DOMAIN calls : ~calls[i].given}) < MaxCalls

Pending(S) == {i \in S : calls[i].state = "pending"}

\* The record of a call that starts now.
Started(op) == [NewCall(op, ssh) EXCEPT !.overlap = Pending(DOMAIN calls) # {}]

\* The calls with the call c, which starts now, added.
Add(c) ==
    Append([i \in DOMAIN calls |->
              IF calls[i].state = "pending" THEN [calls[i] EXCEPT !.overlap = TRUE]
              ELSE calls[i]], c)

(* ------------------------------- logger -------------------------------- *)

\* The logger module the session requires, and the line of the stack trace the
\* runtime gives for the session's calls of it (new Error().stack.split('\n')[3]).
\*   variant  plain (src/logger.js) or tracking (the variants that print the
\*            caller's file name and line)
\*   caller   the stack line of the call site
WindowsCaller == <<"(", "C", ":", Backslash, "s", "s", "h", ".", "j", "s", ":", "9", "0", ":", "7", ")">>

PosixCaller == <<"(", "/", "s", "s", "h", ".", "j", "s", ":", "9", "0", ":", "7", ")">>

PlainLogger == [variant |-> "plain", caller |-> PosixCaller]

Loggers == [variant : {"plain", "tracking"}, caller : {WindowsCaller, PosixCaller}]

Digits == {"0", "1", "2", "3", "4", "5", "6", "7", "8", "9"}

\* line.match(/(.*\\)(.*\.js):(\d+):(\d+)/) is not null: somewhere after a
\* backslash the line has ".js:", digits, ":" and a digit.
CallerMatches(line) ==
    \E b, j, p \in DOMAIN line :
        /\ line[b] = Backslash
        /\ b < j /\ j + 4 <= p /\ p + 2 <= Len(line)
        /\ SubSeq(line, j, j + 3) = <<".", "j", "s", ":">>
        /\ \A q \in (j + 4)..p : line[q] \in Digits
        /\ line[p + 1] = ":"
        /\ line[p + 2] \in Digits

\* const fileName = result[2] with result null: a TypeError, before anything
\* is printed or written.
LogThrows == logger.variant = "tracking" /\ ~CallerMatches(logger.caller)

\* log(level, message): the entry is appended to latest.log.
Log(level) == IF LogThrows THEN logged ELSE Append(logged, level)

(* ------------------------------ log file ------------------------------- *)

maximumLogFileSize == 50 * 1024 * 1024

\* A line of text, without its line feed.
\*   level  the level between brackets after the timestamp; none for a line the
\*          logger's prefix does not start
\*   text   what the line says
\*   chars  its String length (UTF-16 code units)
\*   bytes  its size in the file (UTF-8)
\*   debug  line.includes('[DEBUG]')
Line(level, text, chars, bytes, debug) ==
    [level |-> level, text |-> text, chars |-> chars, bytes |-> bytes, debug |-> debug]

\* What split gives after the last line feed of a text, and for an empty text.
EmptyLine == Line("none", "", 0, 0, FALSE)

\* `[${timestamp}] [${level}] `: ten characters of timestamp and brackets, a
\* space, the level between brackets, a space.
PrefixLength(level) ==
    13 + (CASE level = "INFO" -> 4
            [] level = "WARNING" -> 7
            [] level = "ERROR" -> 5
            [] level = "DEBUG" -> 5
            [] level = "CRITICAL" -> 8)

\* The lines `${logMessage}\n` adds to the file.  A message is the sequence of
\* the pieces its line feeds separate, each one a line without level.
EntryLines(level, message) ==
    [n \in DOMAIN message |->
       IF n = 1
       THEN Line(level, message[n].text,
                 PrefixLength(level) + message[n].chars,
                 PrefixLength(level) + message[n].bytes,
                 level = "DEBUG" \/ message[n].debug)
       ELSE message[n]]

\* The String length of the lines, a line feed after each.
RECURSIVE TextLength(_)
TextLength(lines) ==
    IF lines = <<>> THEN 0 ELSE Head(lines).chars + 1 + TextLength(Tail(lines))

\* The size in bytes of a file of the lines, a line feed after each.
RECURSIVE FileSize(_)
FileSize(lines) ==
    IF lines = <<>> THEN 0 ELSE Head(lines).bytes + 1 + FileSize(Tail(lines))

\* text.split('\n') for the text of a file whose lines all end with a line feed.
Split(lines) == Append(lines, EmptyLine)

\* data.join('\n').length
JoinLength(data) == IF data = <<>> THEN 0 ELSE TextLength(data) - 1

\* The lines of the file data.join('\n') is written to: the last piece has no
\* line feed after it, and it is the empty one.
Joined(data) == IF data = <<>> THEN <<>> ELSE SubSeq(data, 1, Len(data) - 1)

\* data.indexOf(line), 1-based
IndexOf(data, line) ==
    CHOOSE n \in DOMAIN data : data[n] = line /\ \A m \in 1..(n - 1) : data[m] # line

Without(data, n) == SubSeq(data, 1, n - 1) \o SubSeq(data, n + 1, Len(data))

\* A faulty variant: the last line with [DEBUG] is the one taken.
TakenLast(data) ==
    LET debugLines == SelectSeq(data, LAMBDA line : line.debug)
    IN IF Len(debugLines) > 0 THEN IndexOf(data, debugLines[Len(debugLines)]) ELSE 1

\* The index data.splice(data.indexOf(debugLines[0]), 1) or data.shift() takes
\* a piece at.
Taken(data) ==
    LET debugLines == SelectSeq(data, LAMBDA line : line.debug)
    IN IF Len(debugLines) > 0 THEN IndexOf(data, debugLines[1]) ELSE 1

\* (logFileSizeInBytes+4) > maximumLogFileSize
TooLarge(size) == size + 4 > maximumLogFileSize

\* log(level, message), for a message without a throw of the logger: the state
\* after each of its blocks, then the variables.
LogFile(level, message) ==
    LET created == ~logFileExists
        file1 == IF created THEN <<>> ELSE latest
        size1 == IF created THEN 0 ELSE logFileSizeInBytes
        pieces == Split(file1)
        data == Without(pieces, Taken(pieces))
        file2 == IF TooLarge(size1) THEN Joined(data) ELSE file1
        size2 == IF TooLarge(size1) THEN JoinLength(data) ELSE size1
        newDay == today # lastDay
        file3 == IF newDay THEN <<>> ELSE file2
        size3 == IF newDay THEN 0 ELSE size2
        entry == EntryLines(level, message)
    IN /\ logFolderExists' = TRUE
       /\ logFileExists' = TRUE
       /\ dated' = IF newDay THEN file2 ELSE dated
       /\ lastDay' = today
       /\ latest' = file3 \o entry
       /\ logFileSizeInBytes' = size3 + TextLength(entry)
       /\ removed' = IF TooLarge(size1) THEN Append(removed, pieces[Taken(pieces)])
                     ELSE removed
       /\ UNCHANGED today

\* A write operation of the logger, called with the message.
LoggerWrite(level, message) ==
    /\ logged' = Log(level)
    /\ IF LogThrows THEN UNCHANGED logvars ELSE LogFile(level, message)

\* One piece of a message.
Piece(text, chars, bytes) == Line("none", text, chars, bytes, FALSE)

\* `SSH (${this.ip}:${this.port}) kapcsolat létrejött.` for 127.0.0.1 and 22:
\* 39 characters, two of them of two bytes.
ConnectedMessage == << Piece("kapcsolat létrejött.", 39, 41) >>

\* `SSH (${this.ip}:${this.port}) ${err}`, taken as 60 characters of one byte.
FailedMessage == << Piece("err", 60, 60) >>

\* No log directory, no file, the module loaded on the last day of a month.
NoLogFile ==
    /\ latest = <<>>
    /\ dated = <<>>
    /\ logFileExists = FALSE
    /\ logFileSizeInBytes = 0
    /\ logFolderExists = FALSE
    /\ lastDay = 31
    /\ today = 31
    /\ removed = <<>>

\* The log after the entry of a connect() that succeeded, written the same day.
LogOfConnected ==
    /\ latest = EntryLines("DEBUG", ConnectedMessage)
    /\ dated = <<>>
    /\ logFileExists = TRUE
    /\ logFileSizeInBytes = TextLength(EntryLines("DEBUG", ConnectedMessage))
    /\ logFolderExists = TRUE
    /\ lastDay = 31
    /\ today = 31
    /\ removed = <<>>

(* ----------------------------- constructor ----------------------------- *)

Init ==
    /\ ip \in IpValues
    /\ port \in PortValues
    /\ username \in UsernameValues
    /\ password \in PasswordValues
    /\ status = FALSE
    /\ ssh = NullHandle
    /\ clients = <<>>
    /\ calls = <<>>
    /\ logged = <<>>
    /\ logger = PlainLogger
    /\ NoLogFile

(* ------------------------------- test ---------------------------------- *)

\* this.ssh.on('ready', ..).on('error', ..).connect({..}) for the call `id`.
TestOn(cl, id) == [cl EXCEPT !.testL = @ \cup {id}, !.phase = "connecting"]

\* test() called by the user.  With this.ssh === null the executor throws a
\* TypeError, which rejects the promise.
Test ==
    /\ CanCall
    /\ IF ssh = NullHandle
       THEN /\ calls' = Add(Settle(Started("test"), "rejected",
                                             Rejection("TypeError"), status))
            /\ UNCHANGED clients
       ELSE /\ clients' = [clients EXCEPT ![ssh] = TestOn(@, NextId)]
            /\ calls' = Add(Started("test"))
    /\ UNCHANGED <<logger, ip, port, username, password, status, ssh, logged, logvars>>

(* ------------------------------ connect -------------------------------- *)

\* A faulty variant: the password is not validated.
MissingDataButPassword ==
    FalsyString(ip) \/ FalsyNumber(port) \/ FalsyString(username)

\* if(!this.ip || !this.port || !this.username || !this.password) throw
MissingData ==
    FalsyString(ip) \/ FalsyNumber(port) \/ FalsyString(username) \/ FalsyString(password)

\* this.status after `await this.test()` gave true.
StatusAfterSuccess(old) == TRUE

\* this.status after the catch block.
StatusAfterCatch(old) == old

\* The catch block of connect(): Logger.critical, then the promise of connect()
\* resolves (undefined); a throw of the logger rejects it.
ConnectCatch(c, now) ==
    [(IF LogThrows THEN Settle(c, "rejected", Rejection("TypeError"), now)
      ELSE Settle(c, "resolved", Returned("undefined"), now)) EXCEPT !.failed = TRUE]

\* The try block after the await: Logger.debug, this.status = true, then the
\* promise of connect() resolves (undefined); a throw of the logger goes to the
\* catch block.
ConnectSuccess(c, now) ==
    IF LogThrows THEN ConnectCatch(c, now)
    ELSE Settle(c, "resolved", Returned("undefined"), now)

\* A faulty variant: the new client is kept in a local variable, this.ssh is not assigned.
HandleKeptLocal(new) == ssh

\* this.ssh = new ssh2.Client();
HandleAfterNew(new) == new

Connect ==
    /\ CanCall
    /\ IF MissingData
       THEN /\ status' = StatusAfterCatch(status)
            /\ calls' = Add(ConnectCatch(Started("connect"), status'))
            /\ LoggerWrite("CRITICAL", FailedMessage)
            /\ UNCHANGED <<ssh, clients>>
       ELSE /\ clients' = Append(clients, TestOn(NewClient, NextId))
            /\ ssh' = HandleAfterNew(Len(clients) + 1)
            /\ calls' = Add(Started("connect"))
            /\ UNCHANGED <<status, logged, logvars>>
    /\ UNCHANGED <<logger, ip, port, username, password>>

\* The call has a 'ready' or 'error' listener that runs now.
Hear(c, event) == IF c.first = "none" THEN [c EXCEPT !.first = event] ELSE c

\* The 'ready' listener of test(): resolve(true); a connect() awaiting it goes on.
OnReady(c, now) ==
    IF c.op = "connect"
    THEN (IF c.state = "pending" THEN ConnectSuccess(c, now) ELSE c)
    ELSE Settle(c, "resolved", Returned("true"), now)

\* A faulty variant: an 'error' listener that settles nothing.
OnErrorIgnored(c, now) == c

\* The 'error' listener of test(): reject(err); a connect() awaiting it catches.
OnError(c, now) ==
    IF c.op = "connect"
    THEN (IF c.state = "pending" THEN ConnectCatch(c, now) ELSE c)
    ELSE Settle(c, "rejected", Rejection("HandshakeError"), now)

\* The transport emits 'ready' on client k: every 'ready' listener on it runs.
EmitReady(k) ==
    /\ clients[k].phase = "connecting"
    /\ LET woken == Pending(clients[k].testL)
           conn == {i \in woken : calls[i].op = "connect"}
       IN /\ status' = IF conn # {} /\ ~LogThrows THEN StatusAfterSuccess(status)
                       ELSE status
          /\ IF conn # {} THEN LoggerWrite("DEBUG", ConnectedMessage)
             ELSE UNCHANGED <<logged, logvars>>
          /\ calls' = [i \in DOMAIN calls |->
                         IF i \in clients[k].testL
                         THEN OnReady(Hear(calls[i], "ready"), status')
                         ELSE calls[i]]
    /\ clients' = [clients EXCEPT ![k].phase = "ready"]
    /\ UNCHANGED <<logger, ip, port, username, password, ssh>>

\* The transport emits 'error' on client k (during the handshake, or later):
\* every 'error' listener on it runs.
EmitError(k) ==
    /\ clients[k].phase \in {"connecting", "ready"}
    /\ LET woken == Pending(clients[k].testL)
           conn == {i \in woken : calls[i].op = "connect"}
       IN /\ status' = IF conn # {} THEN StatusAfterCatch(status) ELSE status
          /\ IF conn # {} THEN LoggerWrite("CRITICAL", FailedMessage)
             ELSE UNCHANGED <<logged, logvars>>
          /\ calls' = [i \in DOMAIN calls |->
                         IF i \in clients[k].testL
                         THEN OnError(Hear(calls[i], "error"), status')
                         ELSE calls[i]]
    /\ clients' = [clients EXCEPT ![k].phase = "failed"]
    /\ UNCHANGED <<logger, ip, port, username, password, ssh>>

(* ------------------------------- close --------------------------------- *)

\* A faulty variant: the 'end' listener resolves without clearing this.status.
StatusKeptAfterEnd(old) == old

\* this.status after the 'end' listener of close().
StatusAfterEnd(old) == FALSE

\* this.ssh.on('end', ..).end() for the call `id`.
CloseOn(cl, id) == [cl EXCEPT !.endL = @ \cup {id}, !.endRequested = TRUE]

\* close() called by the user.  With this.ssh === null the executor throws a
\* TypeError, which rejects the promise.
Close ==
    /\ CanCall
    /\ IF ssh = NullHandle
       THEN /\ calls' = Add(Settle(Started("close"), "rejected",
                                             Rejection("TypeError"), status))
            /\ UNCHANGED clients
       ELSE /\ clients' = [clients EXCEPT ![ssh] = CloseOn(@, NextId)]
            /\ calls' = Add(Started("close"))
    /\ UNCHANGED <<logger, ip, port, username, password, status, ssh, logged, logvars>>

\* The 'end' listener of close(): this.status = false; resolve(true).
OnEnd(c, now) == Settle(c, "resolved", Returned("true"), now)

\* The transport emits 'end' on client k: asked to by end(), or because the
\* peer went away.  Every 'end' listener ever put on the client runs.
EmitEnd(k) ==
    /\ clients[k].endRequested \/ clients[k].phase \in {"connecting", "ready"}
    /\ status' = IF clients[k].endL # {} THEN StatusAfterEnd(status) ELSE status
    /\ calls' = [i \in DOMAIN calls |->
                   IF i \in clients[k].endL THEN OnEnd(calls[i], status') ELSE calls[i]]
    /\ clients' = [clients EXCEPT ![k].phase = "ended", ![k].endRequested = FALSE]
    /\ UNCHANGED <<logger, ip, port, username, password, ssh, logged, logvars>>

(* --------------------------- escapeShellArg ---------------------------- *)


\* A faulty variant: every single quote only gets a backslash before it, with
\* no closing and reopening of the quoted string.
RECURSIVE ReplaceQuotesBackslashOnly(_)
ReplaceQuotesBackslashOnly(arg) ==
    IF arg = <<>> THEN <<>>
    ELSE (IF Head(arg) = Quote THEN <<Backslash, Quote>> ELSE <<Head(arg)>>)
         \o ReplaceQuotesBackslashOnly(Tail(arg))

\* arg.replace(/'/g, "'\\''"): every single quote becomes the four characters '\''
RECURSIVE ReplaceQuotes(_)
ReplaceQuotes(arg) ==
    IF arg = <<>> THEN <<>>
    ELSE (IF Head(arg) = Quote THEN <<Quote, Backslash, Quote, Quote>> ELSE <<Head(arg)>>)
         \o ReplaceQuotes(Tail(arg))

\* A faulty variant: an argument that already starts and ends with a single
\* quote is taken for escaped and returned as it is.
EscapeShellArgUnlessQuoted(arg) ==
    IF Len(arg) >= 2 /\ Head(arg) = Quote /\ arg[Len(arg)] = Quote
    THEN arg
    ELSE <<Quote>> \o ReplaceQuotes(arg) \o <<Quote>>

EscapeShellArg(arg) == <<Quote>> \o ReplaceQuotes(arg) \o <<Quote>>

(* -------------------------------- exec --------------------------------- *)

\* A faulty variant: join() with no separator given, which separates with commas.
RECURSIVE JoinDefault(_, _)
JoinDefault(list, sep) ==
    IF list = <<>> THEN <<>>
    ELSE IF Len(list) = 1 THEN list[1]
    ELSE list[1] \o <<",">> \o JoinDefault(Tail(list), sep)

\* Array.prototype.join
RECURSIVE Join(_, _)
Join(list, sep) ==
    IF list = <<>> THEN <<>>
    ELSE IF Len(list) = 1 THEN list[1]
    ELSE list[1] \o sep \o Join(Tail(list), sep)

\* `args ? ... : []`: null and undefined are falsy, every array is truthy.
TruthyArgs(args) == args.kind = "array"

\* const safeArgs = args ? args.map(arg => this.escapeShellArg(arg)) : [];
SafeArgs(args) ==
    IF TruthyArgs(args)
    THEN [i \in DOMAIN args.items |-> EscapeShellArg(args.items[i])]
    ELSE <<>>

\* A faulty variant: the space is added only when there are arguments.
SafeCommandTrimmed(command, args) ==
    IF SafeArgs(args) = <<>> THEN command
    ELSE command \o <<Space>> \o Join(SafeArgs(args), <<Space>>)

\* const safeCommand = `${command} ${safeArgs.join(' ')}`;
SafeCommand(command, args) == command \o <<Space>> \o Join(SafeArgs(args), <<Space>>)

\* const result = await this.rawExec(safeCommand); return result;
ExecReturn(result) == result

(* ------------------------------ rawExec -------------------------------- *)

\* The rawExec promise settles, and with it the exec() awaiting it.
SettleRaw(c, st, val, now) ==
    IF c.rawState # "pending" THEN c
    ELSE [Settle(c, st, IF c.op = "exec" THEN ExecReturn(val) ELSE val, now)
            EXCEPT !.rawState = st, !.rawValue = val]

\* The listeners the open callback attaches.  stream.on returns stream, so
\* stream.on('data', f).stderr.on('data', g).on('close', h) puts f on the
\* channel, and g and h on the channel's stderr substream.
AttachedListeners == {<<"stream", "data">>, <<"stderr", "data">>, <<"stderr", "close">>}

\* data += chunk: the chunk (a Buffer) is converted with toString(), which decodes
\* it as UTF-8 on its own.  "a" is a one-byte character, "L" "T" the lead and the
\* continuation byte of a two-byte character (decoded "E"); a byte that starts or
\* continues no character decodes to the replacement character "?".
RECURSIVE BufferToString(_)
BufferToString(chunk) ==
    IF chunk = <<>> THEN <<>>
    ELSE IF Head(chunk) = "a" THEN <<"a">> \o BufferToString(Tail(chunk))
    ELSE IF Head(chunk) = "L" /\ Len(chunk) > 1 /\ chunk[2] = "T"
         THEN <<"E">> \o BufferToString(Tail(Tail(chunk)))
    ELSE <<"?">> \o BufferToString(Tail(chunk))

\* The 'data' listeners: data += chunk.
OnData(c, chunk) == [c EXCEPT !.data = @ \o BufferToString(chunk)]

\* The 'close' listener: resolve({code: code, signal: signal, data: data}).
OnClose(c, code, signal, now) ==
    SettleRaw(c, "resolved",
              [NoResult EXCEPT !.ret = "object", !.code = code, !.signal = signal,
                               !.data = c.data], now)

\* The open callback called with an error and no stream: reject(err), then the
\* statements after the if run.
OpenCallbackError(c, now) ==
    [SettleRaw(c, "rejected", Rejection("OpenError"), now)
       EXCEPT !.chan = "failed", !.cbThrew = TRUE]

\* The open callback called with a stream.
OpenCallbackStream(c) == [c EXCEPT !.chan = "open", !.data = <<>>, !.listeners = AttachedListeners]

\* A faulty variant: a null handle is skipped over instead of dereferenced, and the
\* promise is left to a callback that never comes.
StartRawExecSkippingNull(c) ==
    /\ CanCall
    /\ LET r == [c EXCEPT !.rawState = "pending"]
       IN IF ssh = NullHandle
          THEN calls' = Add(r)
          ELSE IF clients[ssh].phase # "ready"
               THEN \/ calls' = Add(SettleRaw(r, "rejected",
                                                        Rejection("NotConnected"), status))
                    \/ calls' = Add([r EXCEPT !.chan = "refusing"])
               ELSE calls' = Add([r EXCEPT !.chan = "opening"])
    /\ UNCHANGED <<logger, ip, port, username, password, status, ssh, clients, logged, logvars>>

\* rawExec(command) for the call c: this.ssh.exec(command, callback).  A null
\* handle makes the executor throw a TypeError; a client that is not connected
\* refuses, by throwing at once or by calling back with an error ("refusing").
StartRawExec(c) ==
    /\ CanCall
    /\ LET r == [c EXCEPT !.rawState = "pending"]
       IN IF ssh = NullHandle
          THEN calls' = Add(SettleRaw(r, "rejected", Rejection("TypeError"), status))
          ELSE IF clients[ssh].phase # "ready"
               THEN \/ calls' = Add(SettleRaw(r, "rejected",
                                                        Rejection("NotConnected"), status))
                    \/ calls' = Add([r EXCEPT !.chan = "refusing"])
               ELSE calls' = Add([r EXCEPT !.chan = "opening"])
    /\ UNCHANGED <<logger, ip, port, username, password, status, ssh, clients, logged, logvars>>

RawExec(command) == StartRawExec([Started("rawExec") EXCEPT !.command = command])

Exec(command, args) ==
    StartRawExec([Started("exec") EXCEPT !.cmd = command, !.args = args,
                                              !.command = SafeCommand(command, args)])

\* The transport fails to open the sub-channel of call i.
OpenFail(i) ==
    /\ calls[i].chan \in {"opening", "refusing"}
    /\ calls' = [calls EXCEPT ![i] = OpenCallbackError(@, status)]
    /\ UNCHANGED <<logger, ip, port, username, password, status, ssh, clients, logged, logvars>>

\* The transport opens the sub-channel of call i.
OpenOk(i) ==
    /\ calls[i].chan = "opening"
    /\ clients[calls[i].handle].phase = "ready"
    /\ calls' = [calls EXCEPT ![i] = OpenCallbackStream(@)]
    /\ UNCHANGED <<logger, ip, port, username, password, status, ssh, clients, logged, logvars>>

RECURSIVE TotalChunks(_)
TotalChunks(cs) == IF cs = <<>> THEN 0 ELSE Len(Head(cs).emitted) + TotalChunks(Tail(cs))

Has(c, emitter, event) == <<emitter, event>> \in c.listeners

\* The sub-channel of call i emits a chunk on stdout ("stream") or on stderr.
Data(i, src, chunk) ==
    /\ calls[i].chan = "open"
    /\ src = "stderr" => ~calls[i].stderrClosed
    /\ TotalChunks(calls) < MaxChunks
    /\ LET c == [calls[i] EXCEPT !.emitted = Append(@, chunk)]
       IN calls' = [calls EXCEPT ![i] = IF Has(c, src, "data") THEN OnData(c, chunk) ELSE c]
    /\ UNCHANGED <<logger, ip, port, username, password, status, ssh, clients, logged, logvars>>

\* The stderr substream of call i emits its own 'close', which carries nothing.
StderrClose(i) ==
    /\ calls[i].chan \in {"open", "closed"}
    /\ ~calls[i].stderrClosed
    /\ LET c == [calls[i] EXCEPT !.stderrClosed = TRUE]
       IN calls' = [calls EXCEPT ![i] =
                      IF Has(c, "stderr", "close")
                      THEN OnClose(c, "undefined", "undefined", status) ELSE c]
    /\ UNCHANGED <<logger, ip, port, username, password, status, ssh, clients, logged, logvars>>

\* The sub-channel of call i emits its terminal 'close' with the exit code and
\* the signal.
ChannelClose(i, code, signal) ==
    /\ calls[i].chan = "open"
    /\ LET c == [calls[i] EXCEPT !.chan = "closed",
                                 !.term = [code |-> code, signal |-> signal]]
       IN calls' = [calls EXCEPT ![i] =
                      IF Has(c, "stream", "close")
                      THEN OnClose(c, code, signal, status) ELSE c]
    /\ UNCHANGED <<logger, ip, port, username, password, status, ssh, clients, logged, logvars>>

(* ------------------------- inputs and events --------------------------- *)

\* The chunks a stream may carry: a whole character, or half of a two-byte one.
Chunks == {<<"a">>, <<"L">>, <<"T">>}

\* An exit code or a signal the close event does not carry is undefined.
ExitCodes == {"undefined", "0"}
Signals == {"undefined", "SIGTERM"}
\* One of the two is present.
Terminations == {t \in [code : ExitCodes, signal : Signals] :
                   (t.code = "undefined") # (t.signal = "undefined")}

Array(items) == [kind |-> "array", items |-> items]
Null == [kind |-> "null", items |-> <<>>]
Undefined == [kind |-> "undefined", items |-> <<>>]

Ls == <<"l", "s">>

SessionArgs == {Null, Array(<<>>), Array(<< <<"a", " ", "b">>, <<"i", "t", "'", "s">> >>)}

Channel ==
    \E i \in DOMAIN calls :
        \/ OpenOk(i)
        \/ OpenFail(i)
        \/ \E src \in {"stream", "stderr"}, chunk \in Chunks : Data(i, src, chunk)
        \/ StderrClose(i)
        \/ \E t \in Terminations : ChannelClose(i, t.code, t.signal)

Next ==
    \/ Connect
    \/ Test
    \/ Close
    \/ RawExec(Ls)
    \/ \E args \in SessionArgs : Exec(Ls, args)
    \/ \E k \in DOMAIN clients : EmitReady(k)
    \/ \E k \in DOMAIN clients : EmitError(k)
    \/ \E k \in DOMAIN clients : EmitEnd(k)
    \/ Channel

Spec == Init /\ [][Next]_vars

(* ------------- connecting and closing, with a transport that answers ---- *)

NextLive ==
    \/ Connect
    \/ Test
    \/ Close
    \/ \E k \in DOMAIN clients : EmitReady(k)
    \/ \E k \in DOMAIN clients : EmitError(k)
    \/ \E k \in DOMAIN clients : EmitEnd(k)

\* The session's calls and the transport's events, with no command run.
SpecSession == Init /\ [][NextLive]_vars

\* The transport answers the handshake of client k with 'ready' or 'error'.
Answer(k) ==
    /\ k \in DOMAIN clients
    /\ clients[k].phase = "connecting"
    /\ EmitReady(k) \/ EmitError(k)

\* A transport that does not leave a handshake unanswered for ever: while the
\* client is connecting, 'ready' or 'error' is emitted eventually (unless the
\* connection ends first).
SpecLive == SpecSession /\ \A k \in 1..MaxCalls : WF_vars(Answer(k))

(* ------------------- a session with any of the loggers ----------------- *)

InitLogger ==
    /\ ip \in IpValues
    /\ port \in PortValues
    /\ username \in UsernameValues
    /\ password \in PasswordValues
    /\ status = FALSE
    /\ ssh = NullHandle
    /\ clients = <<>>
    /\ calls = <<>>
    /\ logged = <<>>
    /\ logger \in Loggers
    /\ NoLogFile

SpecLogger == InitLogger /\ [][NextLive]_vars

(* ------------------- one exec() on a connected session ----------------- *)

\* The session after `new SSHService("127.0.0.1", 22, "user", "password")` and a
\* connect() whose handshake gave 'ready'.
ConnectedSession ==
    /\ ip = "127.0.0.1"
    /\ port = 22
    /\ username = "user"
    /\ password = "password"
    /\ status = TRUE
    /\ ssh = 1
    /\ clients = << [phase |-> "ready", testL |-> {1}, endL |-> {}, endRequested |-> FALSE] >>
    /\ calls = << [NewCall("connect", NullHandle) EXCEPT
                     !.state = "resolved", !.value = Returned("undefined"),
                     !.statusAtSettle = TRUE, !.first = "ready"] >>
    /\ logged = <<"DEBUG">>
    /\ logger = PlainLogger
    /\ LogOfConnected

SeqsUpTo(S, n) == UNION {[1..k -> S] : k \in 0..n}

ArgChars == {"a", Quote, Space}

ArgStrings == SeqsUpTo(ArgChars, MaxArgLen)

ExecArgs == {Null, Undefined} \cup {Array(l) : l \in SeqsUpTo(ArgStrings, MaxArgs)}

ExecCommands == {Ls, <<"l", "s", Space, "-", "l">>}

\* The first exec() of the behaviour, with any command and any argument list.
ExecOnce ==
    /\ \A i \in DOMAIN calls : calls[i].op # "exec"
    /\ \E command \in ExecCommands, args \in ExecArgs : Exec(command, args)

NextExec ==
    \/ ExecOnce
    \/ \E i \in DOMAIN calls : OpenOk(i)
    \/ \E i \in DOMAIN calls : OpenFail(i)
    \/ \E i \in DOMAIN calls : Data(i, "stream", <<"a">>)
    \/ \E i \in DOMAIN calls : StderrClose(i)
    \/ \E i \in DOMAIN calls, t \in Terminations : ChannelClose(i, t.code, t.signal)

SpecExec == ConnectedSession /\ [][NextExec]_vars

(* --------------- a session used before the behaviour starts ------------- *)

\* The connect() of ConnectedSession, made earlier.
ConnectedCall ==
    [NewCall("connect", NullHandle) EXCEPT
       !.state = "resolved", !.value = Returned("undefined"),
       !.statusAtSettle = TRUE, !.first = "ready", !.given = TRUE]

\* The close() that followed it and resolved on 'end', made earlier.
ClosedCall ==
    [NewCall("close", 1) EXCEPT
       !.state = "resolved", !.value = Returned("true"),
       !.statusAtSettle = FALSE, !.given = TRUE]

\* The session of ConnectedSession.
ConnectedEarlier ==
    /\ ip = "127.0.0.1"
    /\ port = 22
    /\ username = "user"
    /\ password = "password"
    /\ status = TRUE
    /\ ssh = 1
    /\ clients = << [phase |-> "ready", testL |-> {1}, endL |-> {}, endRequested |-> FALSE] >>
    /\ calls = << ConnectedCall >>
    /\ logged = <<"DEBUG">>
    /\ logger = PlainLogger
    /\ LogOfConnected

\* The same session after a close() that resolved: the client has ended, its
\* listeners are still on it, and this.ssh still refers to it.
ClosedEarlier ==
    /\ ip = "127.0.0.1"
    /\ port = 22
    /\ username = "user"
    /\ password = "password"
    /\ status = FALSE
    /\ ssh = 1
    /\ clients = << [phase |-> "ended", testL |-> {1}, endL |-> {2}, endRequested |-> FALSE] >>
    /\ calls = << ConnectedCall, ClosedCall >>
    /\ logged = <<"DEBUG">>
    /\ logger = PlainLogger
    /\ LogOfConnected

SpecLater == (ConnectedEarlier \/ ClosedEarlier) /\ [][Next]_vars

(* ------------------------- the logger on its own ----------------------- *)

\* log calls made in one behaviour.
MaxWrites == 2

\* lines of latest.log when the module is loaded.
MaxOldLines == 3

Half == maximumLogFileSize \div 2

Quarter == maximumLogFileSize \div 4

\* Lines an earlier run left in latest.log.
OldLines ==
    {Line("INFO", "old info", Half - 2, Half - 2, FALSE),
     Line("DEBUG", "old debug", Quarter - 1, Quarter - 1, TRUE),
     Line("DEBUG", "older debug", Quarter - 1, Quarter - 1, TRUE),
     Line("ERROR", "old error", 40, 40, FALSE)}

\* The files within the limit.
OldFiles == {f \in SeqsUpTo(OldLines, MaxOldLines) : FileSize(f) <= maximumLogFileSize}

\* Messages: short, with characters of two bytes, with the text [DEBUG] in it,
\* of half the limit, and of two lines.
Messages ==
    {<< Piece("short", 12, 12) >>,
     << Piece("accented", 12, 16) >>,
     << Line("none", "says [DEBUG]", 20, 20, TRUE) >>,
     << Piece("long", Half, Half) >>,
     << Piece("first", 5, 5), Piece("second", 6, 6) >>}

LogLevels == {"INFO", "DEBUG", "CRITICAL"}

\* The module is loaded (logger.js:60-63) with a file of an earlier run, or none;
\* the session is not used.
InitLogFile ==
    /\ ip = "127.0.0.1"
    /\ port = 22
    /\ username = "user"
    /\ password = "password"
    /\ status = FALSE
    /\ ssh = NullHandle
    /\ clients = <<>>
    /\ calls = <<>>
    /\ logged = <<>>
    /\ logger = PlainLogger
    /\ latest \in OldFiles
    /\ dated = <<>>
    /\ logFileExists \in (IF latest = <<>> THEN BOOLEAN ELSE {TRUE})
    /\ logFileSizeInBytes = FileSize(latest)
    /\ logFolderExists \in (IF logFileExists THEN {TRUE} ELSE BOOLEAN)
    /\ lastDay = 31
    /\ today = 31
    /\ removed = <<>>

\* Logger.info, Logger.debug, .. called with a message.
LogCall(level, message) ==
    /\ Len(logged) < MaxWrites
    /\ LoggerWrite(level, message)
    /\ UNCHANGED <<logger, ip, port, username, password, status, ssh, clients, calls>>

\* The day of the month changes (one change at most between two log calls).
Midnight ==
    /\ today = lastDay
    /\ today' = IF today = 31 THEN 1 ELSE today + 1
    /\ UNCHANGED <<latest, dated, logFileExists, logFileSizeInBytes, logFolderExists,
                   lastDay, removed>>
    /\ UNCHANGED <<logger, ip, port, username, password, status, ssh, clients, calls,
                   logged>>

NextLogFile ==
    \/ \E level \in LogLevels, message \in Messages : LogCall(level, message)
    \/ Midnight

SpecLogFile == InitLogFile /\ [][NextLogFile]_vars

(* ---------------- exec() with arguments of shell characters ----------- *)

MaxEscArgs == 2

MaxEscChars == 3

DoubleQuote == "\""

Dollar == "$"

Semicolon == ";"

Newline == "\n"

\* The characters of an argument: the ones a shell gives a meaning to, and no NUL.
EscChars == {Space, Quote, Backslash, DoubleQuote, Dollar, Semicolon, Newline}

\* The strings of at most n characters.
EscStrings(n) == SeqsUpTo(EscChars, n)

\* The argument lists of at most n strings and c characters in all.
RECURSIVE EscLists(_, _)
EscLists(n, c) ==
    IF n = 0 THEN {<<>>}
    ELSE {<<>>} \cup UNION {{<<a>> \o l : l \in EscLists(n - 1, c - Len(a))} :
                               a \in EscStrings(c)}

\* The first exec() of the behaviour, with any list of such arguments.
ExecEscaped ==
    /\ \A i \in DOMAIN calls : calls[i].op # "exec"
    /\ \E l \in EscLists(MaxEscArgs, MaxEscChars) : Exec(Ls, Array(l))

NextEscape ==
    \/ ExecEscaped
    \/ \E i \in DOMAIN calls : OpenOk(i)
    \/ \E i \in DOMAIN calls, t \in Terminations : ChannelClose(i, t.code, t.signal)

SpecEscape == ConnectedSession /\ [][NextEscape]_vars

(* ------------------------------ properties ----------------------------- *)

Calls(ops) == {i \in DOMAIN calls : calls[i].op \in ops}

Count(level) == Cardinality({n \in DOMAIN logged : logged[n] = level})

C2_ConnectThenClose ==
    \A i \in DOMAIN calls :
        /\ (calls[i].op = "connect" /\ calls[i].state = "resolved" /\ ~calls[i].failed)
              => calls[i].statusAtSettle = TRUE
        /\ (calls[i].op = "close" /\ calls[i].state = "resolved")
              => calls[i].value = Returned("true") /\ calls[i].statusAtSettle = FALSE
        /\ (calls[i].op = "close" /\ calls[i].state = "pending")
              => clients[calls[i].handle].endRequested

\* C2: connect() completed on 'ready', then close() resolved on 'end'.
C2_Witness ==
    /\ ip = "127.0.0.1" /\ port = 22 /\ username = "user" /\ password = "password"
    /\ Len(calls) = 2
    /\ calls[1].op = "connect" /\ calls[1].state = "resolved" /\ ~calls[1].failed
    /\ calls[2].op = "close" /\ calls[2].state = "resolved"
    /\ status = FALSE

\* One of the four constructor parameters is unset: empty, zero or null.
AnyFieldUnset ==
    \/ ip \in {"", "null"}
    \/ port = 0
    \/ username \in {"", "null"}
    \/ password \in {"", "null"}

C4_FailedConnectDisconnects ==
    /\ \A i \in Calls({"connect"}) :
          (calls[i].failed /\ ~calls[i].overlap)
             => calls[i].state = "resolved" /\ calls[i].statusAtSettle = FALSE
    /\ Count("CRITICAL") = Cardinality({i \in Calls({"connect"}) : calls[i].failed})

\* C5 as stated: a rawExec whose channel opened resolves only after the
\* channel's terminal close, with the exit code and signal that close carried.
C5_ResolvesOnTerminalClose ==
    \A i \in Calls({"rawExec", "exec"}) :
        (calls[i].chan \in {"open", "closed"} /\ calls[i].rawState = "resolved")
           => /\ calls[i].chan = "closed"
              /\ calls[i].rawValue.code = calls[i].term.code
              /\ calls[i].rawValue.signal = calls[i].term.signal

RECURSIVE Concatenation(_)
Concatenation(chunks) ==
    IF chunks = <<>> THEN <<>>
    ELSE BufferToString(Head(chunks)) \o Concatenation(Tail(chunks))

\* C6 as stated: once the channel has had its terminal close, the data of the
\* rawExec result is the concatenation, in arrival order, of every chunk the
\* channel emitted on either stream.
C6_DataIsEveryChunk ==
    \A i \in Calls({"rawExec", "exec"}) :
        (calls[i].chan = "closed" /\ calls[i].rawState = "resolved")
           => calls[i].rawValue.data = Concatenation(calls[i].emitted)

\* C7 as stated: when the channel fails to open, rawExec rejects with that
\* error, no exception is raised inside the callback, no listener is attached,
\* and exec() rejects with the same error.
C7_OpenFailureReturns ==
    \A i \in Calls({"rawExec", "exec"}) :
        calls[i].chan = "failed"
           => /\ calls[i].rawState = "rejected"
              /\ calls[i].rawValue = Rejection("OpenError")
              /\ calls[i].state = "rejected"
              /\ calls[i].value = Rejection("OpenError")
              /\ calls[i].listeners = {}
              /\ ~calls[i].cbThrew

\* C8: a rawExec or exec called while the transport handle is null is rejected
\* (it is not pending) and opens no command sub-channel.
C8_NullHandleRejects ==
    \A i \in Calls({"rawExec", "exec"}) :
        calls[i].handle = NullHandle
           => /\ calls[i].state = "rejected"
              /\ calls[i].rawState = "rejected"
              /\ calls[i].chan = "none"

\* C8: rawExec on a session whose connect() failed validation.
C8_Witness ==
    /\ Len(calls) = 2
    /\ calls[1].op = "connect" /\ calls[1].failed
    /\ calls[2].op \in {"rawExec", "exec"} /\ calls[2].handle = NullHandle
    /\ calls[2].state = "rejected"

\* cmd, one space, then the first n escaped arguments separated by single spaces.
RECURSIVE CommandWith(_, _, _)
CommandWith(cmd, list, n) ==
    IF n = 0 THEN cmd \o <<Space>>
    ELSE IF n = 1 THEN CommandWith(cmd, list, 0) \o EscapeShellArg(list[1])
    ELSE CommandWith(cmd, list, n - 1) \o <<Space>> \o EscapeShellArg(list[n])

\* C9: for every command and every argument list, exec gives rawExec the
\* command, one space, and the escaped arguments in order separated by single
\* spaces, and its promise settles as the rawExec promise does, with the same
\* result.
C9_ExecCommandAndResult ==
    \A i \in Calls({"exec"}) :
        /\ calls[i].args.kind = "array"
              => calls[i].command =
                   CommandWith(calls[i].cmd, calls[i].args.items, Len(calls[i].args.items))
        /\ calls[i].state = calls[i].rawState
        /\ calls[i].value = calls[i].rawValue

\* C9: an exec with two arguments whose result carries data.
C9_Witness ==
    \E i \in Calls({"exec"}) :
        /\ calls[i].args.kind = "array" /\ Len(calls[i].args.items) = 2
        /\ calls[i].state = "resolved"
        /\ calls[i].value.data # <<>>

\* C10 as stated: with args null or absent, exec gives rawExec exactly cmd.
C10_NullArgsUnmodified ==
    \A i \in Calls({"exec"}) :
        calls[i].args.kind \in {"null", "undefined"} => calls[i].command = calls[i].cmd

\* C10, amended: with args null or absent, exec gives rawExec cmd followed by
\* exactly one space, the string it gives for an empty list.
C10_NullArgsTrailingSpace ==
    \A i \in Calls({"exec"}) :
        calls[i].args.kind \in {"null", "undefined"}
           => calls[i].command = calls[i].cmd \o <<Space>>

\* C10: an exec with args null has given its command to rawExec.
C10_Witness ==
    \E i \in Calls({"exec"}) : calls[i].args.kind = "null" /\ calls[i].chan = "open"

\* How a POSIX shell splits a line into words: outside quotes a space ends a
\* word, a backslash makes the next character literal and a single quote opens
\* a quoted string; inside it every character is literal up to the next single
\* quote. A pair of quotes with nothing in it still makes a (possibly empty)
\* word. Any other character a shell gives a meaning to, met outside quotes, and
\* a line ending inside quotes, make a word no argument can be equal to.
RECURSIVE ShellSplit(_, _, _, _, _)
ShellSplit(line, quoted, word, inWord, words) ==
    IF line = <<>>
    THEN IF quoted THEN Append(words, <<"unterminated">>)
         ELSE IF inWord THEN Append(words, word) ELSE words
    ELSE LET ch == Head(line)
             rest == Tail(line)
         IN IF quoted
            THEN IF ch = Quote
                 THEN ShellSplit(rest, FALSE, word, TRUE, words)
                 ELSE ShellSplit(rest, TRUE, Append(word, ch), TRUE, words)
            ELSE IF ch = Quote
                 THEN ShellSplit(rest, TRUE, word, TRUE, words)
            ELSE IF ch = Backslash
                 THEN IF rest = <<>>
                      THEN Append(words, <<"unterminated">>)
                      ELSE ShellSplit(Tail(rest), FALSE, Append(word, Head(rest)), TRUE, words)
            ELSE IF ch = Space
                 THEN IF inWord
                      THEN ShellSplit(rest, FALSE, <<>>, FALSE, Append(words, word))
                      ELSE ShellSplit(rest, FALSE, <<>>, FALSE, words)
            ELSE IF ch \in {DoubleQuote, Dollar, Semicolon, Newline}
                 THEN ShellSplit(rest, FALSE, Append(word, "unquoted"), TRUE, words)
            ELSE ShellSplit(rest, FALSE, Append(word, ch), TRUE, words)

ShellWords(line) == ShellSplit(line, FALSE, <<>>, FALSE, <<>>)

\* What exec gave rawExec after the command and its space.
ArgumentsGiven(c) == SubSeq(c.command, Len(c.cmd) + 2, Len(c.command))

\* C11: for every list of argument strings over space, single quote, backslash,
\* double quote, $, ; and newline (the empty string included), the words a POSIX
\* shell splits the space-joined escaped arguments into are exactly the
\* original list; so escapeShellArg(a) alone is read back as exactly a.
C11_EscapedArgsReadBack ==
    \A i \in Calls({"exec"}) :
        calls[i].args.kind = "array"
           => /\ ShellWords(ArgumentsGiven(calls[i])) = calls[i].args.items
              /\ \A n \in DOMAIN calls[i].args.items :
                    ShellWords(EscapeShellArg(calls[i].args.items[n]))
                       = <<calls[i].args.items[n]>>

\* C11: exec has given rawExec the command for two arguments, one empty and one
\* with a single quote and another shell character.
C11_Witness ==
    \E i \in Calls({"exec"}) :
        /\ calls[i].args.kind = "array" /\ Len(calls[i].args.items) = 2
        /\ \E n \in 1..2 : calls[i].args.items[n] = <<>>
        /\ \E n \in 1..2 :
              /\ Len(calls[i].args.items[n]) = 2
              /\ \E m \in 1..2 : calls[i].args.items[n][m] = Quote
              /\ \E m \in 1..2 : calls[i].args.items[n][m] # Quote
        /\ calls[i].chan = "open"

\* C12: escapeShellArg is not idempotent: for every argument a, the empty string
\* included, escaping the escaped a gives a string different from the escaped a.
C12_EscapeTwiceDiffers ==
    \A i \in Calls({"exec"}) :
        \A n \in DOMAIN SafeArgs(calls[i].args) :
            EscapeShellArg(SafeArgs(calls[i].args)[n]) # SafeArgs(calls[i].args)[n]

\* C12: exec has escaped the empty string and a string with a single quote.
C12_Witness ==
    \E i \in Calls({"exec"}) :
        /\ calls[i].args.kind = "array" /\ Len(calls[i].args.items) = 2
        /\ calls[i].args.items[1] = <<>>
        /\ Quote \in {calls[i].args.items[2][m] : m \in DOMAIN calls[i].args.items[2]}
        /\ calls[i].command = calls[i].cmd \o <<Space>> \o Join(SafeArgs(calls[i].args), <<Space>>)

\* C13, the outcome: a test() with a transport client stays pending while the
\* transport has emitted neither 'ready' nor 'error' for it, has resolved to
\* true if 'ready' was the first of the two, and has rejected with the error if
\* 'error' was the first, whatever the transport emitted afterwards.
C13_FirstEventDecides ==
    \A i \in Calls({"test"}) :
        calls[i].handle # NullHandle
           => /\ calls[i].first = "none" => calls[i].state = "pending"
              /\ calls[i].first = "ready"
                    => calls[i].state = "resolved" /\ calls[i].value = Returned("true")
              /\ calls[i].first = "error"
                    => /\ calls[i].state = "rejected"
                       /\ calls[i].value = Rejection("HandshakeError")

\* C13, the flag: a step in which a client emits 'ready' or 'error' changes
\* connected only if it is the first of the two for a connect() listening on it.
C13_LaterEventsKeepStatus ==
    \A k \in DOMAIN clients :
        (/\ clients'[k].phase # clients[k].phase
         /\ clients'[k].phase \in {"ready", "failed"}
         /\ \A i \in clients[k].testL :
               calls[i].op = "connect" => calls[i].first # "none")
           => status' = status

\* C13: test() is settled by whichever of 'ready' and 'error' the transport
\* emits first (true for 'ready', the error for 'error'); a 'ready' or 'error'
\* emitted later changes neither the outcome of test() nor the connected flag.
C13_FirstEventSettlesTest == []C13_FirstEventDecides /\ [][C13_LaterEventsKeepStatus]_vars

\* C13: a test() that resolved on 'ready', on a client that emitted 'error' later.
C13_Witness ==
    \E i \in Calls({"test"}) :
        /\ calls[i].first = "ready" /\ calls[i].state = "resolved"
        /\ clients[calls[i].handle].phase = "failed"

\* C14: close() has no failure path: in every reachable state, a session never
\* connected (handle null) and one already closed included, no close() rejects
\* or throws.
C14_CloseNeverRejects ==
    \A i \in Calls({"close"}) : calls[i].state # "rejected"

\* The client a connect() made: the one its 'ready' and 'error' listeners are on.
ClientOf(i) == CHOOSE k \in DOMAIN clients : i \in clients[k].testL

ConnectPending(i) ==
    i \in DOMAIN calls /\ calls[i].op = "connect" /\ calls[i].state = "pending"

\* The connect() has completed, or the transport ended its connection.
ConnectOver(i) ==
    /\ i \in DOMAIN calls
    /\ \/ calls[i].state # "pending"
       \/ \E k \in DOMAIN clients : i \in clients[k].testL /\ clients[k].phase = "ended"

\* C15, the second half: a connect() for which the transport has emitted
\* neither 'ready' nor 'error' is pending, and connected is true only if the
\* transport emitted 'ready' for some connect().
C15_UnansweredConnectPends ==
    /\ \A i \in Calls({"connect"}) :
          (calls[i].first = "none" /\ ~calls[i].failed) => calls[i].state = "pending"
    /\ status => \E i \in Calls({"connect"}) : calls[i].first = "ready"

\* C15: every connect() eventually completes provided the transport eventually
\* emits 'ready' or 'error' for its handshake (a connect() whose connection the
\* transport ends with neither is not answered); while the transport emits
\* neither, connect() stays pending and connected stays false.
C15_ConnectCompletesIfAnswered ==
    /\ []C15_UnansweredConnectPends
    /\ \A i \in 1..MaxCalls : ConnectPending(i) ~> ConnectOver(i)

\* C15: a connect() that completed after 'error', and a later connect() still
\* pending on a connection the transport ended with neither event.
C15_Witness ==
    \E i, j \in Calls({"connect"}) :
        /\ calls[i].state = "resolved" /\ calls[i].first = "error"
        /\ calls[j].state = "pending" /\ calls[j].first = "none"
        /\ clients[ClientOf(j)].phase = "ended"

\* A step that changes connected sets it true as a connect() completes on the
\* 'ready' of its handshake, or sets it false as an outstanding close()
\* resolves on 'end'.
C16_StatusChange ==
    status' # status
       => IF status'
          THEN \E i \in Calls({"connect"}) :
                  /\ calls[i].state = "pending" /\ calls[i].first = "none"
                  /\ calls'[i].state = "resolved" /\ calls'[i].first = "ready"
          ELSE \E i \in Calls({"close"}) :
                  calls[i].state = "pending" /\ calls'[i].state = "resolved"

\* C16: connected changes from false to true only inside a connect() after
\* its handshake signalled 'ready', and from true to false only through a
\* close() whose transport signalled 'end'; rawExec, exec, test, and 'error',
\* 'end', data or channel-close events with no close() outstanding never
\* change it.
C16_OnlyConnectAndCloseChangeStatus == [][C16_StatusChange]_vars

\* C17: the write operations of every logger variant, the stack-trace ones
\* included, never throw, whatever the caller's location: every connect() that
\* is over has written its entry, and no connect() fails because of the
\* Logger.critical of its error path.
C17_LoggerNeverThrows ==
    /\ \A i \in Calls({"connect"}) : calls[i].state # "rejected"
    /\ Len(logged) = Cardinality({i \in Calls({"connect"}) : calls[i].state # "pending"})

\* C18: after a close() has resolved, the transport handle (this.ssh) is null,
\* and it stays null until a later connect().
C18_HandleReleasedAfterClose ==
    \A i \in Calls({"close"}) :
        (/\ calls[i].state = "resolved" /\ ~calls[i].overlap
         /\ \A j \in Calls({"connect"}) : j < i)
           => ssh = NullHandle

\* C19: the session owns at most one transport connection: with connect()
\* calls made one after the other, no client the session made is open (ready)
\* while this.ssh refers to another one.
C19_NoOpenClientUnreferenced ==
    (\A i \in Calls({"connect"}) : ~calls[i].overlap)
       => \A k \in DOMAIN clients : clients[k].phase = "ready" => k = ssh

\* C20: two rawExec calls outstanding at the same time do not interfere: the
\* result of each holds exactly the chunks of its own channel, in arrival
\* order, and the exit code and signal of its own channel's terminal close.
C20_ConcurrentRawExecsApart ==
    \A i, j \in Calls({"rawExec", "exec"}) :
        (/\ i # j
         /\ calls[i].overlap /\ calls[j].overlap
         /\ calls[i].chan \in {"open", "closed"} /\ calls[j].chan \in {"open", "closed"}
         /\ calls[i].rawState = "resolved")
           => /\ calls[i].chan = "closed"
              /\ calls[i].rawValue.data = Concatenation(calls[i].emitted)
              /\ calls[i].rawValue.code = calls[i].term.code
              /\ calls[i].rawValue.signal = calls[i].term.signal

\* C21: maximumLogFileSize is the maximum size of the log file: after any log
\* calls, from a file within the limit, the size of latest.log is at most
\* maximumLogFileSize and logFileSizeInBytes is the size of the file.
C21_FileWithinLimitAndTracked ==
    /\ FileSize(latest) <= maximumLogFileSize
    /\ logFileExists => logFileSizeInBytes = FileSize(latest)

\* The place of the earliest line that has [DEBUG] in it, or of the first line
\* if none has.
Gone(lines) ==
    LET debug == {n \in DOMAIN lines : lines[n].debug}
    IN IF debug = {} THEN 1 ELSE CHOOSE n \in debug : \A m \in debug : n <= m

\* The lines without that one.
Remaining(lines) ==
    [n \in 1..(Len(lines) - 1) |-> IF n < Gone(lines) THEN lines[n] ELSE lines[n + 1]]

\* A log call that finds the tracked size plus 4 above the maximum takes that
\* line out and leaves every other one, in order, before the new entry; on a
\* new day the lines it leaves are the dated file and the new entry is alone in
\* latest.log.
C22_OneLineGone ==
    (logged' # logged /\ logFileSizeInBytes + 4 > maximumLogFileSize)
       => /\ latest # <<>>
          /\ removed' = Append(removed, latest[Gone(latest)])
          /\ IF today = lastDay
             THEN /\ Len(latest') > Len(Remaining(latest))
                  /\ SubSeq(latest', 1, Len(Remaining(latest))) = Remaining(latest)
             ELSE /\ dated' = Remaining(latest)
                  /\ latest' # <<>>

\* C22: a log call that finds the tracked size plus 4 above maximumLogFileSize
\* removes exactly one existing line before it appends the new entry: the
\* earliest line with [DEBUG] in it if there is one, else the first line; the
\* other lines keep their content and order, and the new entry comes last.
C22_RemovesOneLineThenAppends == [][C22_OneLineGone]_vars

\* C22: a log call has taken the earliest line with [DEBUG] out from behind
\* the first line, which is still first, and has appended its entry the same
\* day.
C22_Witness ==
    /\ today = lastDay
    /\ Len(removed) = 1 /\ removed[1].debug
    /\ Len(latest) >= 3
    /\ latest[1].text = "old info" /\ latest[2].debug
====
